---- MODULE Spec2Model ----
(***************************************************************************)
(* Model of iui/src/controls/layout.rs: the safe wrappers around the       *)
(* native box, tab, group and grid containers.                             *)
(*                                                                         *)
(* The state is the native widget tree as the wrapper can observe it       *)
(* (children of each container, the parent pointer of each control, the    *)
(* padded / margined flags), plus the outcome of the last wrapper call     *)
(* (ret) and the native functions that call reached (calls).               *)
(*                                                                         *)
(* The native toolkit is outside layout.rs.  Where the wrapper hands it    *)
(* an argument that breaks the toolkit's contract (a control that already  *)
(* has a parent, a page index past the end, a grid neighbour that is not   *)
(* in the grid) the toolkit's reaction is a nondeterministic choice        *)
(* between ending the process ("abort") and carrying on ("proceed").       *)
(***************************************************************************)
EXTENDS Integers, Sequences, FiniteSets, TLC

\* ---------------------------------------------------------------- bounds
\* Spec: the controls a program has, and the children its containers take
\* between them.
NumControls == 1
MaxChildren == 2
\* SpecTab, SpecGrid: the controls a program has; SpecTab: the pages the tab
\* group takes (the grid of SpecGrid takes MaxChildren children).
NumWidgets == 3
MaxPages == 3

\* ------------------------------------------------------------- constants
NULL == "null"
NoControl == 0
Controls == 1..NumControls
Widgets == 1..NumWidgets
Boxes == {"vbox", "hbox"}

\* Strings are byte sequences; the second one has an interior NUL byte.
Names == {<<97>>, <<97, 0, 98>>}
Indices == 0..(MaxPages + 1)
Bools == {FALSE, TRUE}

LayoutStrategy == {"Compact", "Stretchy"}

VARIABLES boxChildren, tabPages, groupCreated, groupTitle,
          groupChild, groupMargined, gridChildren, gridPadded, parent,
          crashed, ret, calls

vars == <<boxChildren, tabPages, groupCreated, groupTitle,
          groupChild, groupMargined, gridChildren, gridPadded, parent,
          crashed, ret, calls>>

boxVars == <<boxChildren>>
tabVars == <<tabPages>>
groupVars == <<groupCreated, groupTitle, groupChild, groupMargined>>
gridVars == <<gridChildren, gridPadded>>

\* ------------------------------------------------------------- helpers
\* `b as c_int` : false -> 0, true -> 1
as_c_int(b) == IF b THEN 1 ELSE 0

\* CString::new(bytes) is Err exactly when the bytes hold a NUL.
CString_new_is_ok(bytes) == \A i \in 1..Len(bytes) : bytes[i] # 0

\* What CString::new(..).unwrap().as_ptr() points at: the bytes and a final NUL.
CString_new(bytes) == bytes \o <<0>>

\* The error with its two fields taken from the wrong places.
TabGroupIndexOutOfBounds_swapped(index, n) == [index |-> n, n |-> index]

\* UIError::TabGroupIndexOutOfBounds { index, n }
TabGroupIndexOutOfBounds(index, n) == [index |-> index, n |-> n]

\* The outcome of one wrapper call.
\*   outcome: "ok" (returned, Ok for delete), "err" (returned Err),
\*            "panic" (the wrapper panicked), "abort" (the toolkit ended the process)
\*   value:   the integer returned (booleans as 0/1, nothing as 0)
\*   err:     <<>> or <<the UIError>>
Ret(op, arg, outcome, value, err) ==
    [op |-> op, arg |-> arg, outcome |-> outcome, value |-> value, err |-> err]

Call(fn, args) == [fn |-> fn, args |-> args]

\* ui_sys::uiTabNumPages
uiTabNumPages(pages) == Len(pages)

\* ctx.parent_of(control): None when the native parent pointer is null.
parent_of(control) == parent[control]

\* The toolkit's reaction to being handed `control` as a new child.
AttachOutcomes(control) ==
    IF parent[control] = NULL THEN {"proceed"} ELSE {"proceed", "abort"}

InsertAt(s, i, e) == SubSeq(s, 1, i) \o <<e>> \o SubSeq(s, i + 1, Len(s))
RemoveAt(s, i) == SubSeq(s, 1, i) \o SubSeq(s, i + 2, Len(s))

\* Number of entries of control c in the child list kids.
RECURSIVE Occurrences(_, _)
Occurrences(kids, c) ==
    IF kids = <<>> THEN 0
    ELSE (IF Head(kids) = c THEN 1 ELSE 0) + Occurrences(Tail(kids), c)

Init ==
    /\ boxChildren = [b \in Boxes |-> <<>>]
    /\ tabPages = <<>>
    /\ groupCreated = FALSE
    /\ groupTitle = <<0>>
    /\ groupChild = NoControl
    /\ groupMargined = 0
    /\ gridChildren = <<>>
    /\ gridPadded = 0
    /\ parent = [c \in Controls |-> NULL]
    /\ crashed = FALSE
    /\ ret = Ret("new", 0, "ok", 0, <<>>)
    /\ calls = <<>>

\* ------------------------------------------------------------- boxes

\* append without its assertion: the control goes to uiBoxAppend whether
\* or not it has a parent.
append_unchecked(op, b, child, strategy) ==
    LET stretchy == CASE strategy = "Compact" -> FALSE
                      [] strategy = "Stretchy" -> TRUE
        control == child
    IN  /\ ~crashed
        /\ boxChildren' = [boxChildren EXCEPT ![b] = Append(@, control)]
        /\ parent' = [parent EXCEPT ![control] = b]
        /\ ret' = Ret(op, control, "ok", 0, <<>>)
        /\ calls' = <<Call("uiBoxAppend", <<control, as_c_int(stretchy)>>)>>
        /\ UNCHANGED <<tabVars, groupVars, gridVars, crashed>>

\* fn append(b, ctx, child, strategy): the strategy becomes the stretchy
\* flag, the control must have no parent (assert!), then uiBoxAppend.
append(op, b, child, strategy) ==
    LET stretchy == CASE strategy = "Compact" -> FALSE
                      [] strategy = "Stretchy" -> TRUE
        control == child
    IN  /\ ~crashed
        /\ IF parent_of(control) # NULL
           THEN /\ ret' = Ret(op, control, "panic", 0, <<>>)
                /\ calls' = <<Call("uiControlParent", <<control>>)>>
                /\ UNCHANGED <<boxVars, tabVars, groupVars, gridVars, parent, crashed>>
           ELSE /\ boxChildren' = [boxChildren EXCEPT ![b] = Append(@, control)]
                /\ parent' = [parent EXCEPT ![control] = b]
                /\ ret' = Ret(op, control, "ok", 0, <<>>)
                /\ calls' = <<Call("uiControlParent", <<control>>),
                              Call("uiBoxAppend", <<control, as_c_int(stretchy)>>)>>
                /\ UNCHANGED <<tabVars, groupVars, gridVars, crashed>>

VerticalBox_add(child) == append("VerticalBox::add", "vbox", child, "Compact")
VerticalBox_add_stretchy(child) == append("VerticalBox::add_stretchy", "vbox", child, "Stretchy")
VerticalBox_append(child, strategy) == append("VerticalBox::append", "vbox", child, strategy)

HorizontalBox_add(child) == append("HorizontalBox::add", "hbox", child, "Compact")
HorizontalBox_add_stretchy(child) == append("HorizontalBox::add_stretchy", "hbox", child, "Stretchy")
HorizontalBox_append(child, strategy) == append("HorizontalBox::append", "hbox", child, strategy)

\* --------------------------------------------------------- tab group


\* A new page of the tab group: pages start without a margin.
Page(name, control) == [name |-> name, control |-> control, margined |-> 0]

\* TabGroup::append with the page count read before uiTabAppend instead of
\* after it.
TabGroup_append_stale_count(name, control) ==
    /\ ~crashed
    /\ IF ~CString_new_is_ok(name)
       THEN /\ ret' = Ret("TabGroup::append", control, "panic", 0, <<>>)
            /\ calls' = <<>>
            /\ UNCHANGED <<boxVars, tabVars, groupVars, gridVars, parent, crashed>>
       ELSE \E o \in AttachOutcomes(control) :
            IF o = "abort"
            THEN /\ crashed' = TRUE
                 /\ ret' = Ret("TabGroup::append", control, "abort", 0, <<>>)
                 /\ calls' = <<Call("uiTabNumPages", <<>>), Call("uiTabAppend", <<control>>)>>
                 /\ UNCHANGED <<boxVars, tabVars, groupVars, gridVars, parent>>
            ELSE /\ tabPages' = Append(tabPages, Page(CString_new(name), control))
                 /\ parent' = [parent EXCEPT ![control] = "tab"]
                 /\ ret' = Ret("TabGroup::append", control, "ok", uiTabNumPages(tabPages), <<>>)
                 /\ calls' = <<Call("uiTabNumPages", <<>>), Call("uiTabAppend", <<control>>)>>
                 /\ UNCHANGED <<boxVars, groupVars, gridVars, crashed>>

\* TabGroup::append: CString::new(name).unwrap(), uiTabAppend, then the
\* page count read back from the toolkit.
TabGroup_append(name, control) ==
    /\ ~crashed
    /\ IF ~CString_new_is_ok(name)
       THEN /\ ret' = Ret("TabGroup::append", control, "panic", 0, <<>>)
            /\ calls' = <<>>
            /\ UNCHANGED <<boxVars, tabVars, groupVars, gridVars, parent, crashed>>
       ELSE \E o \in AttachOutcomes(control) :
            IF o = "abort"
            THEN /\ crashed' = TRUE
                 /\ ret' = Ret("TabGroup::append", control, "abort", 0, <<>>)
                 /\ calls' = <<Call("uiTabAppend", <<control>>)>>
                 /\ UNCHANGED <<boxVars, tabVars, groupVars, gridVars, parent>>
            ELSE /\ tabPages' = Append(tabPages, Page(CString_new(name), control))
                 /\ parent' = [parent EXCEPT ![control] = "tab"]
                 /\ ret' = Ret("TabGroup::append", control, "ok", uiTabNumPages(tabPages'), <<>>)
                 /\ calls' = <<Call("uiTabAppend", <<control>>), Call("uiTabNumPages", <<>>)>>
                 /\ UNCHANGED <<boxVars, groupVars, gridVars, crashed>>

\* The toolkit's reaction to uiTabInsertAt(before): an index past the end
\* is outside its contract, and so is a control that has a parent.
InsertOutcomes(before, control) ==
    IF before > uiTabNumPages(tabPages) THEN {"proceed", "abort"}
    ELSE AttachOutcomes(control)

\* Where the toolkit puts the page when it carries on.
InsertPosition(before) ==
    IF before > uiTabNumPages(tabPages) THEN uiTabNumPages(tabPages) ELSE before

\* TabGroup::insert_at: `before` goes to uiTabInsertAt as it came in.
TabGroup_insert_at(name, before, control) ==
    /\ ~crashed
    /\ IF ~CString_new_is_ok(name)
       THEN /\ ret' = Ret("TabGroup::insert_at", before, "panic", 0, <<>>)
            /\ calls' = <<>>
            /\ UNCHANGED <<boxVars, tabVars, groupVars, gridVars, parent, crashed>>
       ELSE \E o \in InsertOutcomes(before, control) :
            IF o = "abort"
            THEN /\ crashed' = TRUE
                 /\ ret' = Ret("TabGroup::insert_at", before, "abort", 0, <<>>)
                 /\ calls' = <<Call("uiTabInsertAt", <<before, control>>)>>
                 /\ UNCHANGED <<boxVars, tabVars, groupVars, gridVars, parent>>
            ELSE /\ tabPages' = InsertAt(tabPages, InsertPosition(before),
                                         Page(CString_new(name), control))
                 /\ parent' = [parent EXCEPT ![control] = "tab"]
                 /\ ret' = Ret("TabGroup::insert_at", before, "ok", uiTabNumPages(tabPages'), <<>>)
                 /\ calls' = <<Call("uiTabInsertAt", <<before, control>>),
                               Call("uiTabNumPages", <<>>)>>
                 /\ UNCHANGED <<boxVars, groupVars, gridVars, crashed>>

\* TabGroup::delete: n is read first; in bounds the page is deleted and
\* Ok(n) returned, out of bounds the typed error is returned.
TabGroup_delete(index) ==
    LET n == uiTabNumPages(tabPages) IN
    /\ ~crashed
    /\ IF index < n
       THEN /\ tabPages' = RemoveAt(tabPages, index)
            /\ parent' = [parent EXCEPT ![tabPages[index + 1].control] = NULL]
            /\ ret' = Ret("TabGroup::delete", index, "ok", n, <<>>)
            /\ calls' = <<Call("uiTabNumPages", <<>>), Call("uiTabDelete", <<index>>)>>
            /\ UNCHANGED <<boxVars, groupVars, gridVars, crashed>>
       ELSE /\ ret' = Ret("TabGroup::delete", index, "err", 0,
                          <<TabGroupIndexOutOfBounds(index, n)>>)
            /\ calls' = <<Call("uiTabNumPages", <<>>)>>
            /\ UNCHANGED <<boxVars, tabVars, groupVars, gridVars, parent, crashed>>

\* The toolkit's reaction to a page index: past the end is outside its contract.
PageOutcomes(page) ==
    IF page < uiTabNumPages(tabPages) THEN {"proceed"} ELSE {"proceed", "abort"}

\* TabGroup::margined: uiTabMargined(page) != 0.  Past the end the toolkit
\* either ends the process or answers with a value of its choosing.
TabGroup_margined(page) ==
    /\ ~crashed
    /\ calls' = <<Call("uiTabMargined", <<page>>)>>
    /\ \E o \in PageOutcomes(page) :
       IF o = "abort"
       THEN /\ crashed' = TRUE
            /\ ret' = Ret("TabGroup::margined", page, "abort", 0, <<>>)
       ELSE /\ \E m \in (IF page < uiTabNumPages(tabPages)
                         THEN {tabPages[page + 1].margined} ELSE {0, 1}) :
                 ret' = Ret("TabGroup::margined", page, "ok", as_c_int(m # 0), <<>>)
            /\ UNCHANGED crashed
    /\ UNCHANGED <<boxVars, tabVars, groupVars, gridVars, parent>>

\* TabGroup::set_margined: uiTabSetMargined(page, margined as c_int).
TabGroup_set_margined(page, margined) ==
    /\ ~crashed
    /\ calls' = <<Call("uiTabSetMargined", <<page, as_c_int(margined)>>)>>
    /\ \E o \in PageOutcomes(page) :
       IF o = "abort"
       THEN /\ crashed' = TRUE
            /\ ret' = Ret("TabGroup::set_margined", page, "abort", 0, <<>>)
            /\ UNCHANGED tabPages
       ELSE /\ tabPages' = IF page < uiTabNumPages(tabPages)
                           THEN [tabPages EXCEPT ![page + 1].margined = as_c_int(margined)]
                           ELSE tabPages
            /\ ret' = Ret("TabGroup::set_margined", page, "ok", 0, <<>>)
            /\ UNCHANGED crashed
    /\ UNCHANGED <<boxVars, groupVars, gridVars, parent>>

\* -------------------------------------------------------------- group

\* Group::new: CString::new(title).unwrap(), uiNewGroup, set_margined(true).
Group_new(title) ==
    /\ ~crashed
    /\ ~groupCreated
    /\ IF ~CString_new_is_ok(title)
       THEN /\ ret' = Ret("Group::new", 0, "panic", 0, <<>>)
            /\ calls' = <<>>
            /\ UNCHANGED <<boxVars, tabVars, groupVars, gridVars, parent, crashed>>
       ELSE /\ groupCreated' = TRUE
            /\ groupTitle' = CString_new(title)
            /\ groupChild' = NoControl
            /\ groupMargined' = as_c_int(TRUE)
            /\ ret' = Ret("Group::new", 0, "ok", 0, <<>>)
            /\ calls' = <<Call("uiNewGroup", <<>>), Call("uiGroupSetMargined", <<as_c_int(TRUE)>>)>>
            /\ UNCHANGED <<boxVars, tabVars, gridVars, parent, crashed>>

\* Group::set_title: CString::new(title).unwrap(), uiGroupSetTitle.
Group_set_title(title) ==
    /\ ~crashed
    /\ groupCreated
    /\ IF ~CString_new_is_ok(title)
       THEN /\ ret' = Ret("Group::set_title", 0, "panic", 0, <<>>)
            /\ calls' = <<>>
            /\ UNCHANGED <<boxVars, tabVars, groupVars, gridVars, parent, crashed>>
       ELSE /\ groupTitle' = CString_new(title)
            /\ ret' = Ret("Group::set_title", 0, "ok", 0, <<>>)
            /\ calls' = <<Call("uiGroupSetTitle", <<>>)>>
            /\ UNCHANGED <<boxVars, tabVars, groupCreated, groupChild, groupMargined,
                           gridVars, parent, crashed>>

\* Group::set_child: uiGroupSetChild(child), no check on the wrapper's side.
\* The toolkit lets go of the group's former child, then takes the new one.
Group_set_child(child) ==
    LET released == IF groupChild = NoControl THEN parent
                    ELSE [parent EXCEPT ![groupChild] = NULL]
        outcomes == IF released[child] = NULL THEN {"proceed"} ELSE {"proceed", "abort"}
    IN  /\ ~crashed
        /\ groupCreated
        /\ calls' = <<Call("uiGroupSetChild", <<child>>)>>
        /\ \E o \in outcomes :
           IF o = "abort"
           THEN /\ crashed' = TRUE
                /\ ret' = Ret("Group::set_child", child, "abort", 0, <<>>)
                /\ UNCHANGED <<groupChild, parent>>
           ELSE /\ groupChild' = child
                /\ parent' = [released EXCEPT ![child] = "group"]
                /\ ret' = Ret("Group::set_child", child, "ok", 0, <<>>)
                /\ UNCHANGED crashed
        /\ UNCHANGED <<boxVars, tabVars, groupCreated, groupTitle, groupMargined, gridVars>>

\* --------------------------------------------------------------- grid

\* LayoutGrid::padded: true exactly when uiGridPadded() == 0.
LayoutGrid_padded ==
    /\ ~crashed
    /\ ret' = Ret("LayoutGrid::padded", 0, "ok",
                  IF gridPadded = 0 THEN as_c_int(TRUE) ELSE as_c_int(FALSE), <<>>)
    /\ calls' = <<Call("uiGridPadded", <<>>)>>
    /\ UNCHANGED <<boxVars, tabVars, groupVars, gridVars, parent, crashed>>

\* LayoutGrid::set_padded: v = if padded { 1 } else { 0 }, uiGridSetPadded(v).
LayoutGrid_set_padded(p) ==
    LET v == IF p THEN 1 ELSE 0 IN
    /\ ~crashed
    /\ gridPadded' = v
    /\ ret' = Ret("LayoutGrid::set_padded", as_c_int(p), "ok", 0, <<>>)
    /\ calls' = <<Call("uiGridSetPadded", <<v>>)>>
    /\ UNCHANGED <<boxVars, tabVars, groupVars, gridChildren, parent, crashed>>

\* LayoutGrid::append: uiGridAppend(control, ..), no check on the wrapper's
\* side.  The cell, span, expand and alignment arguments go through to the
\* toolkit and decide nothing here.
LayoutGrid_append(control) ==
    /\ ~crashed
    /\ calls' = <<Call("uiGridAppend", <<control>>)>>
    /\ \E o \in AttachOutcomes(control) :
       IF o = "abort"
       THEN /\ crashed' = TRUE
            /\ ret' = Ret("LayoutGrid::append", control, "abort", 0, <<>>)
            /\ UNCHANGED <<gridChildren, parent>>
       ELSE /\ gridChildren' = Append(gridChildren, control)
            /\ parent' = [parent EXCEPT ![control] = "grid"]
            /\ ret' = Ret("LayoutGrid::append", control, "ok", 0, <<>>)
            /\ UNCHANGED crashed
    /\ UNCHANGED <<boxVars, tabVars, groupVars, gridPadded>>

\* The toolkit's reaction to uiGridInsertAt: the neighbour has to be a
\* child of the grid and the control must have no parent.
GridInsertOutcomes(control, existing) ==
    IF Occurrences(gridChildren, existing) = 0 THEN {"proceed", "abort"}
    ELSE AttachOutcomes(control)

\* LayoutGrid::insert_at: uiGridInsertAt(control, existing, ..), no check on
\* the wrapper's side.
LayoutGrid_insert_at(control, existing) ==
    /\ ~crashed
    /\ calls' = <<Call("uiGridInsertAt", <<control, existing>>)>>
    /\ \E o \in GridInsertOutcomes(control, existing) :
       IF o = "abort"
       THEN /\ crashed' = TRUE
            /\ ret' = Ret("LayoutGrid::insert_at", control, "abort", 0, <<>>)
            /\ UNCHANGED <<gridChildren, parent>>
       ELSE /\ gridChildren' = Append(gridChildren, control)
            /\ parent' = [parent EXCEPT ![control] = "grid"]
            /\ ret' = Ret("LayoutGrid::insert_at", control, "ok", 0, <<>>)
            /\ UNCHANGED crashed
    /\ UNCHANGED <<boxVars, tabVars, groupVars, gridPadded>>

\* The child entries the containers hold between them.
TotalChildren ==
    Len(boxChildren["vbox"]) + Len(boxChildren["hbox"]) + Len(tabPages)
        + Len(gridChildren) + (IF groupChild = NoControl THEN 0 ELSE 1)

\* A call the bounds of the model let through.
HasRoom == TotalChildren < MaxChildren
TabHasRoom == Len(tabPages) < MaxPages

Next ==
    \/ \E c \in Controls : HasRoom /\ VerticalBox_add(c)
    \/ \E c \in Controls : HasRoom /\ VerticalBox_add_stretchy(c)
    \/ \E c \in Controls, s \in LayoutStrategy : HasRoom /\ VerticalBox_append(c, s)
    \/ \E c \in Controls : HasRoom /\ HorizontalBox_add(c)
    \/ \E c \in Controls : HasRoom /\ HorizontalBox_add_stretchy(c)
    \/ \E c \in Controls, s \in LayoutStrategy : HasRoom /\ HorizontalBox_append(c, s)
    \/ \E name \in Names, c \in Controls : HasRoom /\ TabGroup_append(name, c)
    \/ \E name \in Names, before \in 0..MaxChildren, c \in Controls :
          HasRoom /\ TabGroup_insert_at(name, before, c)
    \/ \E index \in 0..MaxChildren : TabGroup_delete(index)
    \/ \E page \in 0..MaxChildren : TabGroup_margined(page)
    \/ \E page \in 0..MaxChildren, m \in Bools : TabGroup_set_margined(page, m)
    \/ \E title \in Names : Group_new(title)
    \/ \E title \in Names : Group_set_title(title)
    \/ \E c \in Controls : HasRoom /\ Group_set_child(c)
    \/ \E c \in Controls : HasRoom /\ LayoutGrid_append(c)
    \/ \E c \in Controls, e \in Controls : HasRoom /\ LayoutGrid_insert_at(c, e)

Spec == Init /\ [][Next]_vars

\* A program that works on one container only: a tab group (SpecTab) or a
\* grid (SpecGrid).
InitOne ==
    /\ boxChildren = [b \in Boxes |-> <<>>]
    /\ tabPages = <<>>
    /\ groupCreated = FALSE
    /\ groupTitle = <<0>>
    /\ groupChild = NoControl
    /\ groupMargined = 0
    /\ gridChildren = <<>>
    /\ gridPadded = 0
    /\ parent = [c \in Widgets |-> NULL]
    /\ crashed = FALSE
    /\ ret = Ret("new", 0, "ok", 0, <<>>)
    /\ calls = <<>>

NextTab ==
    \/ \E name \in Names, c \in Widgets : TabHasRoom /\ TabGroup_append(name, c)
    \/ \E name \in Names, before \in Indices, c \in Widgets :
          TabHasRoom /\ TabGroup_insert_at(name, before, c)
    \/ \E index \in Indices : TabGroup_delete(index)

SpecTab == InitOne /\ [][NextTab]_vars

NextGrid ==
    \/ LayoutGrid_padded
    \/ \E p \in Bools : LayoutGrid_set_padded(p)
    \/ \E c \in Widgets : Len(gridChildren) < MaxChildren /\ LayoutGrid_append(c)
    \/ \E c \in Widgets, e \in Widgets :
          Len(gridChildren) < MaxChildren /\ LayoutGrid_insert_at(c, e)

SpecGrid == InitOne /\ [][NextGrid]_vars

\* ------------------------------------------------------------- claims

BoxOps == {"VerticalBox::add", "VerticalBox::add_stretchy", "VerticalBox::append",
           "HorizontalBox::add", "HorizontalBox::add_stretchy", "HorizontalBox::append"}
StringOps == {"TabGroup::append", "TabGroup::insert_at", "Group::new", "Group::set_title"}

\* The controls of the tab group's pages, in page order.
PageControls(pages) == [k \in DOMAIN pages |-> pages[k].control]

\* How many child entries of the containers are control c.
Attachments(c) ==
    Occurrences(boxChildren["vbox"], c) + Occurrences(boxChildren["hbox"], c)
        + Occurrences(PageControls(tabPages), c) + Occurrences(gridChildren, c)
        + (IF groupChild = c THEN 1 ELSE 0)

\* C1: a delete with index >= n (n the tabs the group holds) returns the
\* error TabGroupIndexOutOfBounds with exactly that index and that n, does
\* not reach the native delete, and leaves the pages as they were.
C1_DeleteOutOfBounds ==
    [][(ret'.op = "TabGroup::delete" /\ ret'.arg >= Len(tabPages)) =>
          /\ ret'.outcome = "err"
          /\ ret'.err = <<[index |-> ret'.arg, n |-> Len(tabPages)]>>
          /\ \A k \in DOMAIN calls' : calls'[k].fn # "uiTabDelete"
          /\ tabPages' = tabPages]_vars

\* An out-of-bounds delete on a group that holds tabs has returned its error.
C1_Witness ==
    /\ ret.op = "TabGroup::delete"
    /\ ret.outcome = "err"
    /\ Len(tabPages) >= 2
    /\ ret.arg > Len(tabPages)

\* C2: a delete that returns Ok returns the number of tabs the group holds
\* once the call has finished.
C2_DeleteReturnsCountAfter ==
    (ret.op = "TabGroup::delete" /\ ret.outcome = "ok") => ret.value = Len(tabPages)

\* C3: no control is a child of two containers, or twice a child of one.
C3_AtMostOneParent ==
    \A c \in DOMAIN parent : Attachments(c) <= 1

\* C4: the call of padded() that follows set_padded(p) returns p.
C4_PaddedReturnsWhatWasSet ==
    [][(ret.op = "LayoutGrid::set_padded" /\ ret'.op = "LayoutGrid::padded") =>
          ret'.value = ret.arg]_vars

\* C5: an append that returns has added the control as the last tab, kept
\* the earlier tabs in their order and returned n + 1, n being the tabs the
\* group held; an append that does not return leaves the tabs as they were.
C5_AppendAddsLast ==
    [][(ret'.op = "TabGroup::append") =>
          IF ret'.outcome = "ok"
          THEN /\ Len(tabPages') = Len(tabPages) + 1
               /\ SubSeq(tabPages', 1, Len(tabPages)) = tabPages
               /\ tabPages'[Len(tabPages')].control = ret'.arg
               /\ ret'.value = Len(tabPages) + 1
               /\ ret'.value = Len(tabPages')
          ELSE tabPages' = tabPages]_vars

\* The third append in a row on a new group has returned 3.
C5_Witness ==
    /\ ret.op = "TabGroup::append"
    /\ ret.outcome = "ok"
    /\ ret.value = 3
    /\ PageControls(tabPages) = <<1, 2, 3>>

\* C6: an insert_at hands the toolkit an index within 0..n, and when it
\* returns the new tab is at that index, the tabs from there on have moved up
\* by one in their order, and n + 1 is returned.
C6_InsertAtInBounds ==
    [][\A k \in DOMAIN calls' :
          calls'[k].fn = "uiTabInsertAt" =>
             /\ calls'[k].args[1] <= Len(tabPages)
             /\ ret'.outcome = "ok" =>
                   /\ PageControls(tabPages') =
                         InsertAt(PageControls(tabPages), calls'[k].args[1], calls'[k].args[2])
                   /\ ret'.value = Len(tabPages) + 1]_vars

\* C7: no operation but TabGroup::delete has a failure outcome.
C7_OnlyDeleteFails ==
    ret.op # "TabGroup::delete" => ret.outcome \notin {"err", "panic"}

\* C7 as amended: Err comes from TabGroup::delete alone, and exactly on an
\* index >= n.  The wrapper panics in two places and nowhere else: a box
\* add / add_stretchy / append panics exactly when the control has a parent,
\* and TabGroup::append / insert_at and Group::new / set_title panic exactly
\* when the string holds a NUL byte.  A panic comes before any native call
\* that changes the widget tree.
C7_FailureOutcomes ==
    [][/\ ret'.outcome = "err" <=>
             (ret'.op = "TabGroup::delete" /\ ret'.arg >= Len(tabPages))
       /\ ret'.outcome = "panic" => ret'.op \in BoxOps \cup StringOps
       /\ ret'.op \in BoxOps =>
             /\ ret'.outcome \in {"ok", "panic"}
             /\ ret'.outcome = "panic" <=> parent[ret'.arg] # NULL
       /\ ret'.op = "TabGroup::append" =>
             \A name \in Names :
                TabGroup_append(name, ret'.arg) =>
                   (ret'.outcome = "panic" <=> ~CString_new_is_ok(name))
       /\ ret'.op = "TabGroup::insert_at" =>
             \A name \in Names, c \in DOMAIN parent :
                TabGroup_insert_at(name, ret'.arg, c) =>
                   (ret'.outcome = "panic" <=> ~CString_new_is_ok(name))
       /\ ret'.op \in {"Group::new", "Group::set_title"} =>
             \A title \in Names :
                (Group_new(title) \/ Group_set_title(title)) =>
                   (ret'.outcome = "panic" <=> ~CString_new_is_ok(title))
       /\ ret'.outcome = "panic" =>
             /\ UNCHANGED <<boxVars, tabVars, groupVars, gridVars, parent, crashed>>
             /\ \A k \in DOMAIN calls' : calls'[k].fn = "uiControlParent"]_vars

\* A box add of a control that has a parent has panicked.
C7_Witness ==
    /\ ret.op \in BoxOps
    /\ ret.outcome = "panic"
    /\ parent[ret.arg] # NULL

====
